---------------------------- MODULE Spec2Model ----------------------------
(***************************************************************************)
(* A model of ipo_monitor.py: one run of main(), which fetches today's     *)
(* IPO calendar (get_todays_ipos), keeps the records whose offer amount    *)
(* reaches the threshold (filter_large_ipos) and mails a summary           *)
(* (send_email).                                                           *)
(*                                                                         *)
(* Numbers.  A Python float is an IEEE 754 double: a sign, a mantissa of   *)
(* 53 bits and a binary exponent.  float(), +, / 2, * and >= are computed  *)
(* on that representation with round-to-nearest, ties-to-even, as the      *)
(* interpreter computes them; the mantissa and the intermediate results    *)
(* are naturals of arbitrary size, held as sequences of 15-bit limbs.      *)
(* Overflow to infinity and subnormal results lie outside the magnitudes   *)
(* of the model.  Share counts are Python ints, modelled as integers.      *)
(* The working price and the offer amount are a float or, for a falsy      *)
(* price, the int 0 and its int product: a number [kind, n, f] says which. *)
(*                                                                         *)
(* Strings.  A Python str is a sequence of one-character strings, so that  *)
(* str.split, float() and int() are computed character by character.       *)
(* The characters of the model are the decimal digits, ".", "-", "+", the  *)
(* blank and "x"; exponents, "_" and the words inf and nan are not.        *)
(*                                                                         *)
(* Exceptions.  An exception nothing catches ends the run in pc =          *)
(* "crashed" (the traceback and a non-zero exit status), with `error`      *)
(* naming the exception and `crash_site` the function that raised it.      *)
(***************************************************************************)
EXTENDS Integers, Sequences, FiniteSets

VARIABLES
    pc,                 \* the statement of main / its callee about to run
    response,           \* what requests.get produced (line 23)
    ipos,               \* main's local `ipos` (line 111)
    filter_ipos,        \* filter_large_ipos's parameter `ipos` (line 32)
    idx,                \* position of the for loop of line 36 (1-based)
    price,              \* filter's local `price` after line 44/46, a number
    shares,             \* filter's local `shares` after line 48
    offer_amount,       \* filter's local `offer_amount` (line 49), a number
    filter_qualifying,  \* filter's local `qualifying_ipos` (line 34)
    qualifying_ipos,    \* main's local `qualifying_ipos` (line 115)
    send_qualifying,    \* send_email's parameter `qualifying_ipos` (line 65)
    subject,            \* send_email's local `subject`
    body,               \* send_email's local `body`
    server,             \* the SMTP_SSL connection: "none", "open", "closed"
    submitted,          \* number of messages handed to server.sendmail
    mail_error,         \* the exception raised inside the try of line 97
    calls,              \* how often main called each stage
    log,                \* what was printed to standard output
    error,              \* the uncaught exception, "none" while there is none
    crash_site          \* the function the uncaught exception came from

vars == << pc, response, ipos, filter_ipos, idx, price, shares, offer_amount,
           filter_qualifying, qualifying_ipos, send_qualifying, subject, body,
           server, submitted, mail_error, calls, log, error, crash_site >>

-----------------------------------------------------------------------------
(* Program constants *)

OFFER_AMOUNT_THRESHOLD == 200000000

\* The digits float() and int() read are decimal.
Ten == 10

\* A double has 53 bits of mantissa.
MantissaBits == 53

\* The limbs of a natural of arbitrary size are its digits to the base 2^15.
LimbBits == 15
Base == 32768

(* Bound of the model: the longest ipoCalendar list a response carries. *)
MaxIpos == 2

-----------------------------------------------------------------------------
(* Naturals of arbitrary size: sequences of limbs, the lowest first, with *)
(* no zero limb at the top; << >> is zero.                                *)

RECURSIVE BigNorm(_)
BigNorm(a) ==
    IF a = << >> THEN << >>
    ELSE IF a[Len(a)] = 0 THEN BigNorm(SubSeq(a, 1, Len(a) - 1))
    ELSE a

RECURSIVE BigOfNat(_)
BigOfNat(n) == IF n = 0 THEN << >> ELSE << n % Base >> \o BigOfNat(n \div Base)

RECURSIVE BigAddC(_, _, _)
BigAddC(a, b, c) ==
    IF a = << >> /\ b = << >> THEN (IF c = 0 THEN << >> ELSE << c >>)
    ELSE LET x == IF a = << >> THEN 0 ELSE a[1]
             y == IF b = << >> THEN 0 ELSE b[1]
             s == x + y + c
         IN  << s % Base >>
             \o BigAddC(IF a = << >> THEN << >> ELSE Tail(a),
                        IF b = << >> THEN << >> ELSE Tail(b), s \div Base)

BigAdd(a, b) == BigAddC(a, b, 0)

\* a - b - c for a >= b + c
RECURSIVE BigSubC(_, _, _)
BigSubC(a, b, c) ==
    IF a = << >> THEN << >>
    ELSE LET y == IF b = << >> THEN 0 ELSE b[1]
             d == a[1] - y - c
         IN  << IF d < 0 THEN d + Base ELSE d >>
             \o BigSubC(Tail(a), IF b = << >> THEN << >> ELSE Tail(b),
                        IF d < 0 THEN 1 ELSE 0)

BigSub(a, b) == BigNorm(BigSubC(a, b, 0))

\* -1, 0, 1 as a < b, a = b, a > b
RECURSIVE BigCmp(_, _)
BigCmp(a, b) ==
    IF Len(a) # Len(b) THEN (IF Len(a) < Len(b) THEN 0 - 1 ELSE 1)
    ELSE IF a = << >> THEN 0
    ELSE IF a[Len(a)] # b[Len(b)]
    THEN (IF a[Len(a)] < b[Len(b)] THEN 0 - 1 ELSE 1)
    ELSE BigCmp(SubSeq(a, 1, Len(a) - 1), SubSeq(b, 1, Len(b) - 1))

\* a * k + c for a limb-sized k
RECURSIVE BigMulSmallC(_, _, _)
BigMulSmallC(a, k, c) ==
    IF a = << >> THEN (IF c = 0 THEN << >> ELSE << c >>)
    ELSE LET s == a[1] * k + c
         IN  << s % Base >> \o BigMulSmallC(Tail(a), k, s \div Base)

BigMulSmall(a, k) == BigNorm(BigMulSmallC(a, k, 0))

RECURSIVE BigMul(_, _)
BigMul(a, b) ==
    IF a = << >> \/ b = << >> THEN << >>
    ELSE LET rest == BigMul(a, Tail(b))
         IN  BigAdd(BigMulSmall(a, b[1]),
                    IF rest = << >> THEN << >> ELSE << 0 >> \o rest)

\* quotient and remainder of a by a limb-sized k > 0
RECURSIVE BigDivSmallR(_, _)
BigDivSmallR(a, k) ==
    IF a = << >> THEN [q |-> << >>, r |-> 0]
    ELSE LET hi == BigDivSmallR(Tail(a), k)
             cur == hi.r * Base + a[1]
         IN  [q |-> << cur \div k >> \o hi.q, r |-> cur % k]

BigDivSmall(a, k) ==
    LET d == BigDivSmallR(a, k) IN [q |-> BigNorm(d.q), r |-> d.r]

RECURSIVE Zeros(_)
Zeros(n) == IF n = 0 THEN << >> ELSE << 0 >> \o Zeros(n - 1)

RECURSIVE NatBits(_)
NatBits(n) == IF n = 0 THEN 0 ELSE 1 + NatBits(n \div 2)

\* the number of bits of a
BitLen(a) ==
    IF a = << >> THEN 0 ELSE (Len(a) - 1) * LimbBits + NatBits(a[Len(a)])

\* a * 2^n
ShiftLeft(a, n) ==
    IF a = << >> THEN << >>
    ELSE Zeros(n \div LimbBits) \o BigMulSmall(a, 2 ^ (n % LimbBits))

\* a \div 2^n
ShiftRight(a, n) ==
    IF n \div LimbBits >= Len(a) THEN << >>
    ELSE BigDivSmall(SubSeq(a, (n \div LimbBits) + 1, Len(a)),
                     2 ^ (n % LimbBits)).q

IsOdd(a) == a # << >> /\ a[1] % 2 = 1

\* a * 10^d
RECURSIVE TimesPow10(_, _)
TimesPow10(a, d) == IF d = 0 THEN a ELSE TimesPow10(BigMulSmall(a, Ten), d - 1)

\* a \div 10^d, and whether the division left a remainder
RECURSIVE DivPow10(_, _)
DivPow10(a, d) ==
    IF d = 0 THEN [q |-> a, inexact |-> FALSE]
    ELSE LET one == BigDivSmall(a, Ten)
             rest == DivPow10(one.q, d - 1)
         IN  [q |-> rest.q, inexact |-> rest.inexact \/ one.r # 0]

-----------------------------------------------------------------------------
(* IEEE 754 doubles.  [neg, m, e] is (-1)^neg * m * 2^e with m of exactly  *)
(* 53 bits, or m = << >> and e = 0 for a zero.                             *)

FloatZero == [neg |-> FALSE, m |-> << >>, e |-> 0]

\* The double nearest to n * 2^e, ties to the even mantissa.
RoundToDouble(neg, n, e) ==
    LET len == BitLen(n) IN
    IF n = << >> THEN [neg |-> neg, m |-> << >>, e |-> 0]
    ELSE IF len <= MantissaBits
    THEN [neg |-> neg, m |-> ShiftLeft(n, MantissaBits - len),
          e |-> e - (MantissaBits - len)]
    ELSE LET s == len - MantissaBits
             q == ShiftRight(n, s)
             r == BigSub(n, ShiftLeft(q, s))
             c == BigCmp(r, ShiftLeft(<< 1 >>, s - 1))
             up == c > 0 \/ (c = 0 /\ IsOdd(q))
             q2 == IF up THEN BigAdd(q, << 1 >>) ELSE q
         IN  IF BitLen(q2) > MantissaBits
             THEN [neg |-> neg, m |-> ShiftRight(q2, 1), e |-> e + s + 1]
             ELSE [neg |-> neg, m |-> q2, e |-> e + s]

\* float(n) of an int n (exact below 2^53)
FloatOfInt(n) ==
    RoundToDouble(n < 0, BigOfNat(IF n < 0 THEN 0 - n ELSE n), 0)

\* The double nearest to n / 10^d: the quotient of n * 2^k by 10^d, with a
\* sticky bit for the remainder, rounded.
FloatOfDecimal(neg, n, d) ==
    LET k == 64 + 4 * d
        qr == DivPow10(ShiftLeft(n, k), d)
        sticky == IF qr.inexact THEN << 1 >> ELSE << >>
    IN  RoundToDouble(neg, BigAdd(ShiftLeft(qr.q, 1), sticky), 0 - k - 1)

\* x + y
FloatAdd(x, y) ==
    IF x.m = << >> /\ y.m = << >>
    THEN [neg |-> x.neg /\ y.neg, m |-> << >>, e |-> 0]
    ELSE IF x.m = << >> THEN y
    ELSE IF y.m = << >> THEN x
    ELSE LET e0 == IF x.e < y.e THEN x.e ELSE y.e
             a == ShiftLeft(x.m, x.e - e0)
             b == ShiftLeft(y.m, y.e - e0)
             c == BigCmp(a, b)
         IN  IF x.neg = y.neg THEN RoundToDouble(x.neg, BigAdd(a, b), e0)
             ELSE IF c = 0 THEN FloatZero
             ELSE IF c > 0 THEN RoundToDouble(x.neg, BigSub(a, b), e0)
             ELSE RoundToDouble(y.neg, BigSub(b, a), e0)

\* x / 2
FloatHalf(x) == IF x.m = << >> THEN x ELSE [x EXCEPT !.e = @ - 1]

\* x * y
FloatMul(x, y) ==
    RoundToDouble(x.neg # y.neg, BigMul(x.m, y.m), x.e + y.e)

\* x >= y
FloatGe(x, y) ==
    LET xneg == x.neg /\ x.m # << >>
        yneg == y.neg /\ y.m # << >>
        \* |x| >= |y|
        absGe == IF x.m = << >> THEN y.m = << >>
                 ELSE IF y.m = << >> THEN TRUE
                 ELSE IF x.e # y.e THEN x.e > y.e
                 ELSE BigCmp(x.m, y.m) >= 0
        absLe == IF y.m = << >> THEN x.m = << >>
                 ELSE IF x.m = << >> THEN TRUE
                 ELSE IF x.e # y.e THEN x.e < y.e
                 ELSE BigCmp(x.m, y.m) <= 0
    IN  IF xneg # yneg THEN yneg
        ELSE IF xneg THEN absLe
        ELSE absGe

-----------------------------------------------------------------------------
(* Python values of the raw fields `price` and `numberOfShares` *)

PyNone == [kind |-> "none", num |-> 0, str |-> << >>]
PyNum(n) == [kind |-> "num", num |-> n, str |-> << >>]
PyStr(s) == [kind |-> "str", num |-> 0, str |-> s]

\* Python truthiness of a raw value: None, 0 and "" are falsy.
Falsy(v) ==
    \/ v.kind = "none"
    \/ v.kind = "num" /\ v.num = 0
    \/ v.kind = "str" /\ v.str = << >>

\* `x or 0` (lines 38, 39)
OrZero(v) == IF Falsy(v) THEN PyNum(0) ELSE v

DigitChars == <<"0", "1", "2", "3", "4", "5", "6", "7", "8", "9">>

IsDigit(c) == \E d \in 1..Ten : DigitChars[d] = c

DigitVal(c) == (CHOOSE d \in 1..Ten : DigitChars[d] = c) - 1

AllDigits(s) == \A k \in 1..Len(s) : IsDigit(s[k])

\* the value of a string of digits, as an integer
RECURSIVE DecimalValue(_)
DecimalValue(s) ==
    IF Len(s) = 0 THEN 0
    ELSE Ten * DecimalValue(SubSeq(s, 1, Len(s) - 1)) + DigitVal(s[Len(s)])

\* the value of a string of digits, as a natural of arbitrary size
RECURSIVE DecimalBig(_)
DecimalBig(s) ==
    IF Len(s) = 0 THEN << >>
    ELSE BigMulSmallC(DecimalBig(SubSeq(s, 1, Len(s) - 1)), Ten,
                      DigitVal(s[Len(s)]))

\* `"-" in price` (line 42)
Contains(s, c) == \E k \in 1..Len(s) : s[k] = c

\* str.split(sep): the pieces between the occurrences of sep (line 43)
RECURSIVE Split(_, _)
Split(s, sep) ==
    IF ~Contains(s, sep) THEN << s >>
    ELSE LET k == CHOOSE j \in 1..Len(s) :
                      s[j] = sep /\ \A m \in 1..(j - 1) : s[m] # sep
         IN  << SubSeq(s, 1, k - 1) >> \o Split(SubSeq(s, k + 1, Len(s)), sep)

\* float() and int() ignore blanks around their argument.
RECURSIVE Strip(_)
Strip(s) ==
    IF s = << >> THEN s
    ELSE IF s[1] = " " THEN Strip(Tail(s))
    ELSE IF s[Len(s)] = " " THEN Strip(SubSeq(s, 1, Len(s) - 1))
    ELSE s

HasSign(s) == s # << >> /\ s[1] \in {"-", "+"}

\* The argument without blanks and sign.
Unsigned(s) == IF HasSign(Strip(s)) THEN Tail(Strip(s)) ELSE Strip(s)

IsNegative(s) == Strip(s) # << >> /\ Strip(s)[1] = "-"

\* The digits before and after the decimal point.
IntPart(u) == IF Contains(u, ".") THEN Split(u, ".")[1] ELSE u
FracPart(u) == IF Contains(u, ".") THEN Split(u, ".")[2] ELSE << >>

\* float(s) succeeds: blanks, an optional sign, then digits with at most
\* one decimal point and at least one digit.
FloatParses(s) ==
    LET u == Unsigned(s) IN
    /\ Len(Split(u, ".")) <= 2
    /\ AllDigits(IntPart(u))
    /\ AllDigits(FracPart(u))
    /\ Len(IntPart(u)) + Len(FracPart(u)) > 0

\* float(s): the double nearest to the decimal s denotes
FloatValue(s) ==
    LET u == Unsigned(s) IN
    FloatOfDecimal(IsNegative(s), DecimalBig(IntPart(u) \o FracPart(u)),
                   Len(FracPart(u)))

\* int(s) succeeds: blanks, an optional sign, then digits.
IntParses(s) == Unsigned(s) # << >> /\ AllDigits(Unsigned(s))

IntValue(s) ==
    IF IsNegative(s) THEN 0 - DecimalValue(Unsigned(s))
    ELSE DecimalValue(Unsigned(s))

-----------------------------------------------------------------------------
(* filter_large_ipos: the normalisation of one record (lines 38-49) *)

\* Line 42: the price is a str holding a "-".
IsRange(p) == p.kind = "str" /\ Contains(p.str, "-")

\* Line 44: (float(low) + float(high)) / 2
Midpoint(low, high) == FloatHalf(FloatAdd(low, high))

\* Lines 38, 42-46 raise ValueError: the range does not unpack into two
\* parts (line 43), or float() rejects its argument (lines 44, 46).
PriceRaises(raw) ==
    LET p == OrZero(raw) IN
    IF IsRange(p)
    THEN LET parts == Split(p.str, "-") IN
         \/ Len(parts) # 2
         \/ ~FloatParses(parts[1])
         \/ ~FloatParses(parts[2])
    ELSE p.kind = "str" /\ ~FloatParses(p.str)

\* A Python int and a Python float, as values of `price` and `offer_amount`.
NumInt(n) == [kind |-> "int", n |-> n, f |-> FloatZero]

NumFloat(x) == [kind |-> "float", n |-> 0, f |-> x]

\* The double a number converts to, where an operation or a format
\* specification of type f takes an int.
AsFloat(v) == IF v.kind = "int" THEN FloatOfInt(v.n) ELSE v.f

\* Lines 38, 42-46: the working price; defined where PriceRaises is false.
\* A falsy price leaves the int 0 of line 46.
NormalizePrice(raw) ==
    LET p == OrZero(raw) IN
    IF IsRange(p)
    THEN LET parts == Split(p.str, "-") IN
         NumFloat(Midpoint(FloatValue(parts[1]), FloatValue(parts[2])))
    ELSE IF Falsy(p) THEN NumInt(0)
    ELSE IF p.kind = "str" THEN NumFloat(FloatValue(p.str))
    ELSE NumFloat(FloatOfInt(p.num))

\* Lines 39, 48 raise ValueError: int() rejects its argument.
SharesRaises(raw) ==
    LET s == OrZero(raw) IN s.kind = "str" /\ ~IntParses(s.str)

\* Lines 39, 48: the share count; defined where SharesRaises is false.
NormalizeShares(raw) ==
    LET s == OrZero(raw) IN
    IF Falsy(s) THEN 0
    ELSE IF s.kind = "str" THEN IntValue(s.str)
    ELSE s.num

\* Line 49: price * shares: the product of two ints is an int, a float
\* price has the share count converted to a double.
OfferAmount(p, s) ==
    IF p.kind = "int" THEN NumInt(p.n * s)
    ELSE NumFloat(FloatMul(p.f, FloatOfInt(s)))

\* Line 51: offer_amount >= OFFER_AMOUNT_THRESHOLD
MeetsThreshold(amount) ==
    IF amount.kind = "int" THEN amount.n >= OFFER_AMOUNT_THRESHOLD
    ELSE FloatGe(amount.f, FloatOfInt(OFFER_AMOUNT_THRESHOLD))

\* Lines 52-60: the record appended for a qualifying IPO.
QualifyingRecord(ipo, p, s, amount) ==
    [symbol |-> ipo.symbol, company |-> ipo.name, date |-> ipo.date,
     price |-> p, shares |-> s, offer_amount |-> amount,
     exchange |-> ipo.exchange]

\* Line 52: qualifying_ipos.append(...)
AppendQualifying(list, rec) == Append(list, rec)

-----------------------------------------------------------------------------
(* The inputs of the model: what the provider may answer *)

\* The local date both get_todays_ipos and send_email read (lines 19, 67)
Today == "2024-01-15"

\* str(n) for a count
RECURSIVE IntToStr(_)
IntToStr(n) ==
    IF n < 10 THEN << DigitChars[n + 1] >>
    ELSE Append(IntToStr(n \div 10), DigitChars[(n % 10) + 1])


\* Raw prices: the empty string, a number, a decimal string, a range of
\* integers, a range of decimals whose midpoint is not a double, and
\* strings float() or the two-part unpacking rejects.
PriceInputs ==
    { PyStr(<< >>), PyNum(0 - 200),
      PyStr(<<"2", "0", "0", ".", "0">>),
      PyStr(<<"1", "5", "-", "1", "7">>),
      PyStr(<<"2", "0", ".", "4", "7", "-", "2", "0", ".", "4", "9">>),
      PyStr(<<"x">>),
      PyStr(<<"1", "-", "2", "-", "3">>),
      PyStr(<<"-", "5">>) }

\* Raw share counts: absent, numbers that bring the prices above to, above
\* and below the threshold, a signed numeric string and a string int()
\* rejects.
ShareInputs ==
    { PyNone, PyNum(1000000), PyNum(9765625),
      PyStr(<<"-", "1", "0", "0", "0", "0", "0", "0">>),
      PyStr(<<"x">>) }

\* The display fields of the k-th record of a calendar: every record of a
\* response has its own symbol and company name.
ListingAt(k) ==
    [symbol |-> <<"I", "P", "O">> \o IntToStr(k),
     name |-> <<"C", "o", " ">> \o IntToStr(k),
     date |-> Today,
     exchange |-> IF k % 2 = 1 THEN "NYSE" ELSE "NASDAQ"]

RawRecord(l, p, s) ==
    [symbol |-> l.symbol, name |-> l.name, date |-> l.date,
     exchange |-> l.exchange, price |-> p, numberOfShares |-> s]

\* The ipoCalendar lists of exactly n records
RECURSIVE CalendarsOfLen(_)
CalendarsOfLen(n) ==
    IF n = 0 THEN { << >> }
    ELSE LET shorter == CalendarsOfLen(n - 1)
             last == { RawRecord(ListingAt(n), p, s) :
                       p \in PriceInputs, s \in ShareInputs }
         IN  { Append(c, r) : c \in shorter, r \in last }

\* The ipoCalendar lists of at most n records
RECURSIVE CalendarsUpTo(_)
CalendarsUpTo(n) ==
    IF n = 0 THEN CalendarsOfLen(0)
    ELSE CalendarsUpTo(n - 1) \cup CalendarsOfLen(n)

Calendars == CalendarsUpTo(MaxIpos)

\* requests.get either raises (no connection) or returns a response with a
\* status code and a body.
Responses ==
    { [kind |-> "exception", status |-> 0, body |-> "none", calendar |-> << >>] }
    \cup { [kind |-> "http", status |-> st, body |-> "none", calendar |-> << >>] :
           st \in {401, 500} }
    \cup { [kind |-> "http", status |-> 200, body |-> b, calendar |-> << >>] :
           b \in {"invalid_json", "not_object", "no_key"} }
    \cup { [kind |-> "http", status |-> 200, body |-> "calendar", calendar |-> c] :
           c \in Calendars }

-----------------------------------------------------------------------------
(* Standard output and the notification text *)

Line(msg, n) == [msg |-> msg, n |-> n]

\* print("=" * 50) (lines 108, 121)
Separator == Line("==================================================", 0)

\* |x| * 100 rounded to an integer, ties to even, on the exact value of the
\* double: the digits a ".2f" format prints.
RoundedHundredths(x) ==
    LET n == BigMulSmall(x.m, 100) IN
    IF x.e >= 0 THEN ShiftLeft(n, x.e)
    ELSE LET s == 0 - x.e
             q == ShiftRight(n, s)
             r == BigSub(n, ShiftLeft(q, s))
             c == BigCmp(r, ShiftLeft(<< 1 >>, s - 1))
         IN  IF c > 0 \/ (c = 0 /\ IsOdd(q)) THEN BigAdd(q, << 1 >>) ELSE q

\* the decimal digits of a natural, none for zero
RECURSIVE BigToDigits(_)
BigToDigits(a) ==
    IF a = << >> THEN << >>
    ELSE LET d == BigDivSmall(a, Ten)
         IN  Append(BigToDigits(d.q), DigitChars[d.r + 1])

\* the "," option of a format: a comma before every group of three digits
RECURSIVE Group3(_)
Group3(ds) ==
    IF Len(ds) <= 3 THEN ds
    ELSE Group3(SubSeq(ds, 1, Len(ds) - 3)) \o << "," >>
         \o SubSeq(ds, Len(ds) - 2, Len(ds))

\* The ".2f" rendering of a double, with the "," option when grouped.
Format2f(x, grouped) ==
    LET h == BigDivSmall(RoundedHundredths(x), 100)
        whole == IF h.q = << >> THEN << "0" >> ELSE BigToDigits(h.q)
    IN  (IF x.neg THEN << "-" >> ELSE << >>)
        \o (IF grouped THEN Group3(whole) ELSE whole)
        \o << ".", DigitChars[(h.r \div Ten) + 1], DigitChars[(h.r % Ten) + 1] >>

\* The "," rendering of an int (line 83)
FormatInt(n) ==
    (IF n < 0 THEN << "-" >> ELSE << >>)
    \o Group3(IntToStr(IF n < 0 THEN 0 - n ELSE n))

\* Lines 70, 73
Subject(list) ==
    IF list = << >>
    THEN << "IPO Monitor - No Large IPOs Today (", Today, ")" >>
    ELSE << "IPO Alert - " >> \o IntToStr(Len(list))
         \o << " Large IPO(s) Today (", Today, ")" >>

\* Lines 77-87: the block of one qualifying IPO
Block(ipo) ==
    [ticker |-> ipo.symbol, company |-> ipo.company, date |-> ipo.date,
     price |-> Format2f(AsFloat(ipo.price), FALSE),
     shares |-> FormatInt(ipo.shares),
     offer_amount |-> Format2f(AsFloat(ipo.offer_amount), TRUE),
     exchange |-> ipo.exchange]

\* Lines 71, 74-87
Body(list) ==
    IF list = << >>
    THEN [header |-> "No IPOs with offer amount above USD 200 million are scheduled for today.",
          blocks |-> << >>]
    ELSE [header |-> "The following IPOs meet the criteria (Offer Amount > USD 200M):",
          blocks |-> [k \in 1..Len(list) |-> Block(list[k])]]

NoSubject == << >>
NoBody == [header |-> "", blocks |-> << >>]
NoResponse == [kind |-> "pending", status |-> 0, body |-> "none", calendar |-> << >>]

-----------------------------------------------------------------------------
(* get_todays_ipos (lines 17-29): what the call does with a response *)

\* Mutant of GetTodaysIposResult: a non-success status raises, as
\* response.raise_for_status() would.
GetTodaysIposResultRaising(r) ==
    IF r.kind = "exception"
    THEN [raises |-> "ConnectionError", value |-> << >>, printed |-> << >>]
    ELSE IF r.status # 200
    THEN [raises |-> "HTTPError", value |-> << >>, printed |-> << >>]
    ELSE IF r.body = "invalid_json"
    THEN [raises |-> "JSONDecodeError", value |-> << >>, printed |-> << >>]
    ELSE IF r.body = "not_object"
    THEN [raises |-> "AttributeError", value |-> << >>, printed |-> << >>]
    ELSE IF r.body = "no_key"
    THEN [raises |-> "none", value |-> << >>, printed |-> << >>]
    ELSE [raises |-> "none", value |-> r.calendar, printed |-> << >>]

\* raises: the exception that leaves the function ("none": it returns);
\* value: the list returned; printed: what line 28 prints.
GetTodaysIposResult(r) ==
    IF r.kind = "exception"
    THEN [raises |-> "ConnectionError", value |-> << >>, printed |-> << >>]
    ELSE IF r.status # 200
    THEN [raises |-> "none", value |-> << >>,
          printed |-> << Line("Error fetching IPO data", r.status) >>]
    ELSE IF r.body = "invalid_json"
    THEN [raises |-> "JSONDecodeError", value |-> << >>, printed |-> << >>]
    ELSE IF r.body = "not_object"
    THEN [raises |-> "AttributeError", value |-> << >>, printed |-> << >>]
    ELSE IF r.body = "no_key"
    THEN [raises |-> "none", value |-> << >>, printed |-> << >>]
    ELSE [raises |-> "none", value |-> r.calendar, printed |-> << >>]

-----------------------------------------------------------------------------
(* The run *)

Init ==
    /\ pc = "main"
    /\ response = NoResponse
    /\ ipos = << >>
    /\ filter_ipos = << >>
    /\ idx = 0
    /\ price = NumInt(0)
    /\ shares = 0
    /\ offer_amount = NumInt(0)
    /\ filter_qualifying = << >>
    /\ qualifying_ipos = << >>
    /\ send_qualifying = << >>
    /\ subject = NoSubject
    /\ body = NoBody
    /\ server = "none"
    /\ submitted = 0
    /\ mail_error = "none"
    /\ calls = [fetch |-> 0, filter |-> 0, send |-> 0]
    /\ log = << >>
    /\ error = "none"
    /\ crash_site = "none"

filterVars == << filter_ipos, idx, price, shares, offer_amount, filter_qualifying >>
sendVars == << send_qualifying, subject, body, server, submitted, mail_error >>
crashVars == << error, crash_site >>

\* Lines 107-108
MainStart ==
    /\ pc = "main"
    /\ log' = log \o << Line("Running IPO Monitor at", 0), Separator >>
    /\ pc' = "call_fetch"
    /\ UNCHANGED << response, ipos, filterVars, qualifying_ipos, sendVars,
                    calls, crashVars >>

\* Line 111 and the whole of get_todays_ipos (lines 17-29)
Fetch ==
    /\ pc = "call_fetch"
    /\ \E r \in Responses :
        LET res == GetTodaysIposResult(r) IN
        /\ response' = r
        /\ calls' = [calls EXCEPT !.fetch = @ + 1]
        /\ log' = log \o res.printed
        /\ IF res.raises # "none"
           THEN /\ pc' = "crashed"
                /\ error' = res.raises
                /\ crash_site' = "get_todays_ipos"
                /\ UNCHANGED ipos
           ELSE /\ pc' = "log_found"
                /\ ipos' = res.value
                /\ UNCHANGED crashVars
    /\ UNCHANGED << filterVars, qualifying_ipos, sendVars >>

\* Mutant of MainLogFound: with nothing fetched, main goes straight to the
\* notification.
MainLogFoundSkipsFilter ==
    /\ pc = "log_found"
    /\ log' = Append(log, Line("IPO(s) scheduled for today", Len(ipos)))
    /\ pc' = IF ipos = << >> THEN "call_send" ELSE "call_filter"
    /\ UNCHANGED << response, ipos, filterVars, qualifying_ipos, sendVars,
                    calls, crashVars >>

\* Line 112
MainLogFound ==
    /\ pc = "log_found"
    /\ log' = Append(log, Line("IPO(s) scheduled for today", Len(ipos)))
    /\ pc' = "call_filter"
    /\ UNCHANGED << response, ipos, filterVars, qualifying_ipos, sendVars,
                    calls, crashVars >>

\* Line 115 (the call) and line 34
FilterCall ==
    /\ pc = "call_filter"
    /\ calls' = [calls EXCEPT !.filter = @ + 1]
    /\ filter_ipos' = ipos
    /\ filter_qualifying' = << >>
    /\ idx' = 1
    /\ pc' = "filter_loop"
    /\ UNCHANGED << response, ipos, price, shares, offer_amount,
                    qualifying_ipos, sendVars, log, crashVars >>

\* Lines 36-60: one iteration of the loop
FilterStep ==
    /\ pc = "filter_loop"
    /\ idx <= Len(filter_ipos)
    /\ LET ipo == filter_ipos[idx] IN
       IF PriceRaises(ipo.price)
       THEN /\ pc' = "crashed"
            /\ error' = "ValueError"
            /\ crash_site' = "filter_large_ipos"
            /\ UNCHANGED << idx, price, shares, offer_amount, filter_qualifying >>
       ELSE IF SharesRaises(ipo.numberOfShares)
       THEN /\ pc' = "crashed"
            /\ error' = "ValueError"
            /\ crash_site' = "filter_large_ipos"
            /\ price' = NormalizePrice(ipo.price)
            /\ UNCHANGED << idx, shares, offer_amount, filter_qualifying >>
       ELSE LET p == NormalizePrice(ipo.price)
                s == NormalizeShares(ipo.numberOfShares)
                amount == OfferAmount(p, s)
            IN  /\ price' = p
                /\ shares' = s
                /\ offer_amount' = amount
                /\ filter_qualifying' =
                       IF MeetsThreshold(amount)
                       THEN AppendQualifying(filter_qualifying,
                                             QualifyingRecord(ipo, p, s, amount))
                       ELSE filter_qualifying
                /\ idx' = idx + 1
                /\ pc' = "filter_loop"
                /\ UNCHANGED crashVars
    /\ UNCHANGED << response, ipos, filter_ipos, qualifying_ipos, sendVars,
                    calls, log >>

\* Line 62, the assignment of line 115, and line 116
FilterReturn ==
    /\ pc = "filter_loop"
    /\ idx > Len(filter_ipos)
    /\ qualifying_ipos' = filter_qualifying
    /\ log' = Append(log, Line("IPO(s) above $200M threshold", Len(filter_qualifying)))
    /\ pc' = "call_send"
    /\ UNCHANGED << response, ipos, filterVars, sendVars, calls, crashVars >>

\* Line 119 (the call) and lines 67-94: the subject, the body, the message
SendCall ==
    /\ pc = "call_send"
    /\ calls' = [calls EXCEPT !.send = @ + 1]
    /\ send_qualifying' = qualifying_ipos
    /\ subject' = Subject(qualifying_ipos)
    /\ body' = Body(qualifying_ipos)
    /\ pc' = "smtp_connect"
    /\ UNCHANGED << response, ipos, filterVars, qualifying_ipos, server,
                    submitted, mail_error, log, crashVars >>

\* Line 98: smtplib.SMTP_SSL(...) connects, or raises inside the try
SmtpConnect ==
    /\ pc = "smtp_connect"
    /\ \/ /\ server' = "open"
          /\ pc' = "smtp_login"
          /\ UNCHANGED mail_error
       \/ /\ mail_error' = "connect"
          /\ pc' = "send_except"
          /\ UNCHANGED server
    /\ UNCHANGED << response, ipos, filterVars, qualifying_ipos,
                    send_qualifying, subject, body, submitted, calls, log,
                    crashVars >>

\* Line 99: server.login succeeds, or raises inside the with block: the
\* server refuses the credentials and the connection stays open, or the
\* connection drops and smtplib closes the socket before it raises.
SmtpLogin ==
    /\ pc = "smtp_login"
    /\ \/ /\ pc' = "smtp_sendmail"
          /\ UNCHANGED << mail_error, server >>
       \/ /\ mail_error' = "login"
          /\ pc' = "smtp_exit"
          /\ \E dropped \in BOOLEAN :
                server' = IF dropped THEN "closed" ELSE server
    /\ UNCHANGED << response, ipos, filterVars, qualifying_ipos,
                    send_qualifying, subject, body, submitted, calls,
                    log, crashVars >>

\* Line 100: server.sendmail submits the message, or raises: the server
\* refuses the sender, the recipient or the data and the connection stays
\* open, or the connection drops and smtplib closes the socket before it
\* raises.
SmtpSendmail ==
    /\ pc = "smtp_sendmail"
    /\ \/ /\ submitted' = submitted + 1
          /\ pc' = "smtp_exit"
          /\ UNCHANGED << mail_error, server >>
       \/ /\ mail_error' = "sendmail"
          /\ pc' = "smtp_exit"
          /\ UNCHANGED submitted
          /\ \E dropped \in BOOLEAN :
                server' = IF dropped THEN "closed" ELSE server
    /\ UNCHANGED << response, ipos, filterVars, qualifying_ipos,
                    send_qualifying, subject, body, calls, log,
                    crashVars >>

\* Where control goes when the with block of line 98 is left.
AfterExit(err) == IF err = "none" THEN "send_ok" ELSE "send_except"

\* Mutant of SmtpExit: no with block, server.quit() after sendmail only, so
\* an exception leaves the connection open.
SmtpExitOnSuccessOnly ==
    /\ pc = "smtp_exit"
    /\ server' = IF mail_error = "none" THEN "closed" ELSE server
    /\ \/ /\ UNCHANGED mail_error
          /\ pc' = AfterExit(mail_error)
       \/ /\ mail_error = "none"
          /\ mail_error' = "quit"
          /\ pc' = AfterExit("quit")
    /\ UNCHANGED << response, ipos, filterVars, qualifying_ipos,
                    send_qualifying, subject, body, submitted, calls, log,
                    crashVars >>

\* The end of the with block of line 98: SMTP.__exit__ sends QUIT and closes
\* the socket, on the normal path and on an exception alike.  On a
\* connection that is still open, a QUIT the server refuses raises after
\* the socket is closed, in place of an exception of the block; on a
\* connection already dropped, the QUIT is skipped.
SmtpExit ==
    /\ pc = "smtp_exit"
    /\ server' = "closed"
    /\ \/ /\ UNCHANGED mail_error
          /\ pc' = AfterExit(mail_error)
       \/ /\ server = "open"
          /\ mail_error' = "quit"
          /\ pc' = AfterExit("quit")
    /\ UNCHANGED << response, ipos, filterVars, qualifying_ipos,
                    send_qualifying, subject, body, submitted, calls, log,
                    crashVars >>

\* Line 101
SendOk ==
    /\ pc = "send_ok"
    /\ log' = Append(log, Line("Email sent successfully", 0))
    /\ pc' = "main_end"
    /\ UNCHANGED << response, ipos, filterVars, qualifying_ipos, sendVars,
                    calls, crashVars >>

\* Mutant of SendExcept: the handler prints and raises again.
SendExceptReraises ==
    /\ pc = "send_except"
    /\ log' = Append(log, Line("Failed to send email", 0))
    /\ pc' = "crashed"
    /\ error' = "SMTPException"
    /\ crash_site' = "send_email"
    /\ UNCHANGED << response, ipos, filterVars, qualifying_ipos, sendVars,
                    calls >>

\* Lines 102-103: the handler of the try of line 97
SendExcept ==
    /\ pc = "send_except"
    /\ log' = Append(log, Line("Failed to send email", 0))
    /\ pc' = "main_end"
    /\ UNCHANGED << response, ipos, filterVars, qualifying_ipos, sendVars,
                    calls, crashVars >>

\* Lines 121-122
MainEnd ==
    /\ pc = "main_end"
    /\ log' = log \o << Separator,
                        Line("IPO Monitor completed successfully", 0) >>
    /\ pc' = "done"
    /\ UNCHANGED << response, ipos, filterVars, qualifying_ipos, sendVars,
                    calls, crashVars >>

Next ==
    \/ MainStart
    \/ Fetch
    \/ MainLogFound
    \/ FilterCall
    \/ FilterStep
    \/ FilterReturn
    \/ SendCall
    \/ SmtpConnect
    \/ SmtpLogin
    \/ SmtpSendmail
    \/ SmtpExit
    \/ SendOk
    \/ SendExcept
    \/ MainEnd

Spec == Init /\ [][Next]_vars

-----------------------------------------------------------------------------
(* Properties *)

\* The records the loop of filter_large_ipos has finished with.
Processed == IF idx = 0 THEN 0 ELSE idx - 1

\* main has received the value filter_large_ipos returned.
FilterReturned == pc \in {"call_send", "smtp_connect", "smtp_login",
                          "smtp_sendmail", "smtp_exit", "send_ok",
                          "send_except", "main_end", "done"}

\* send_email has left its try statement.
SendLeftTry == pc \in {"send_ok", "send_except", "main_end", "done"}

Logged(msg) == \E k \in 1..Len(log) : log[k].msg = msg

InOutput(ipo, out) == \E j \in 1..Len(out) : out[j].symbol = ipo.symbol

AbsInt(n) == IF n < 0 THEN 0 - n ELSE n

\* The decimal a string of the form digits[.digits] denotes, as the
\* fraction num / 10^dec.
DecimalOf(s) ==
    [num |-> DecimalBig(IntPart(Unsigned(s)) \o FracPart(Unsigned(s))),
     dec |-> Len(FracPart(Unsigned(s)))]

\* Twice the price of the specification, in exact decimal arithmetic, as
\* the signed fraction num / 10^dec: the sum of the two bounds of a range
\* (twice their mean), twice the decimal a string or a number denotes, 0
\* for an absent or falsy price.
ExactTwicePrice(raw) ==
    LET p == OrZero(raw) IN
    IF IsRange(p)
    THEN LET low == DecimalOf(Split(p.str, "-")[1])
             high == DecimalOf(Split(p.str, "-")[2])
         IN  [neg |-> FALSE,
              num |-> BigAdd(TimesPow10(low.num, high.dec),
                             TimesPow10(high.num, low.dec)),
              dec |-> low.dec + high.dec]
    ELSE IF p.kind = "str"
    THEN [neg |-> IsNegative(p.str),
          num |-> BigMulSmall(DecimalOf(p.str).num, 2),
          dec |-> DecimalOf(p.str).dec]
    ELSE [neg |-> p.num < 0, num |-> BigOfNat(2 * AbsInt(p.num)), dec |-> 0]

\* The exact offer amount of a raw record is at least 200,000,000:
\* twice the price times the shares is at least 400,000,000.
ExactOfferReachesThreshold(ipo) ==
    LET tp == ExactTwicePrice(ipo.price)
        s == NormalizeShares(ipo.numberOfShares)
    IN  /\ tp.neg = (s < 0)
        /\ BigCmp(BigMul(tp.num, BigOfNat(AbsInt(s))),
                  TimesPow10(BigOfNat(2 * 200000000), tp.dec)) >= 0

\* C1 (as stated): a record filter_large_ipos has processed is in its output
\* if and only if its normalized price times its normalized share count, in
\* exact arithmetic, is at least 200,000,000 (a product of exactly
\* 200,000,000 qualifies), and every record of the output has
\* offer_amount >= 200,000,000.
C1_ThresholdExact ==
    /\ \A k \in 1..Processed :
          InOutput(filter_ipos[k], filter_qualifying)
              <=> ExactOfferReachesThreshold(filter_ipos[k])
    /\ \A j \in 1..Len(filter_qualifying) :
          FloatGe(AsFloat(filter_qualifying[j].offer_amount),
                  FloatOfInt(200000000))

Display(rec, company) ==
    << rec.symbol, company, rec.date, rec.exchange >>

\* C2 (as stated): the output of filter_large_ipos is the subsequence of
\* its input made of exactly the qualifying records, those whose exact
\* offer amount is at least 200,000,000: each once, in input order, each
\* with the symbol, name, date and exchange of the record it was built
\* from; and main receives that list.
C2_OrderPreserved ==
    LET qualifying == SelectSeq(SubSeq(filter_ipos, 1, Processed),
                                ExactOfferReachesThreshold)
    IN  /\ Len(filter_qualifying) = Len(qualifying)
        /\ \A j \in 1..Len(qualifying) :
              j <= Len(filter_qualifying) =>
                  Display(filter_qualifying[j], filter_qualifying[j].company)
                      = Display(qualifying[j], qualifying[j].name)
        /\ FilterReturned => qualifying_ipos = filter_qualifying

\* C3 (as stated): filter_large_ipos never raises, whatever the price and
\* numberOfShares of a record.
C3_FilterNeverRaises == crash_site # "filter_large_ipos"

\* C4 (as stated): no error of any stage leaves main; every run gets past
\* each stage to the completion marker.
C4_NoErrorPropagates == pc # "crashed"

NoIposSubject == << "IPO Monitor - No Large IPOs Today (", Today, ")" >>

NoneFoundHeader ==
    "No IPOs with offer amount above USD 200 million are scheduled for today."

\* C5: after a response with a non-success status, get_todays_ipos has
\* returned the empty list without raising, the filter yields the empty
\* list, send_email is called with it and builds the "No Large IPOs Today"
\* subject and the fixed body, and the run goes on until main is done.
C5_NonOkFetchStillNotifies ==
    (response.kind = "http" /\ response.status # 200) =>
        /\ pc # "crashed"
        /\ ipos = << >>
        /\ Logged("Error fetching IPO data")
        /\ FilterReturned => qualifying_ipos = << >>
        /\ calls.send = 1 =>
              /\ send_qualifying = << >>
              /\ subject = NoIposSubject
              /\ body = [header |-> NoneFoundHeader, blocks |-> << >>]
        /\ pc = "done" => calls.send = 1 /\ calls.filter = 1
        /\ pc = "done" \/ ENABLED Next

\* A completed run whose fetch got status 500 and whose mail was submitted.
C5_Witness ==
    /\ pc = "done"
    /\ response.status = 500
    /\ subject = NoIposSubject
    /\ submitted = 1

\* C6: a failure of the connection, of the login, of the submission or of
\* the closing QUIT is caught inside send_email, which prints it and
\* returns; main then prints its completion marker.
C6_MailFailureAbsorbed ==
    mail_error # "none" =>
        /\ pc # "crashed"
        /\ pc = "done" \/ ENABLED Next
        /\ pc \in {"main_end", "done"} => Logged("Failed to send email")
        /\ pc = "done" =>
              log[Len(log)].msg = "IPO Monitor completed successfully"

\* A completed run whose login raised.
C6_Witness == pc = "done" /\ mail_error = "login"

\* C7 (as stated): every record filter_large_ipos emits has a price >= 0 and
\* a share count >= 0.
C7_EmittedNonNegative ==
    \A j \in 1..Len(filter_qualifying) :
        /\ FloatGe(AsFloat(filter_qualifying[j].price), FloatZero)
        /\ filter_qualifying[j].shares >= 0

\* C8: once send_email has left its try statement, a connection it opened is
\* closed, whether login and sendmail succeeded or raised, and at most one
\* message was submitted on it.
C8_ConnectionReleased ==
    /\ (SendLeftTry /\ server # "none") => server = "closed"
    /\ submitted <= 1
    /\ submitted = 1 => server # "none"

\* send_email has returned after sendmail raised.
C8_Witness == pc = "main_end" /\ mail_error = "sendmail" /\ server = "closed"

\* C9: main calls each stage at most once, the filter only after the fetch
\* has returned and on the list it returned, send_email only after the
\* filter has returned and on the list it returned, and a run that reaches
\* completion has called each stage exactly once.
C9_StagesOnceInOrder ==
    /\ calls.fetch <= 1 /\ calls.filter <= 1 /\ calls.send <= 1
    /\ calls.filter = 1 =>
          /\ calls.fetch = 1
          /\ GetTodaysIposResult(response).raises = "none"
          /\ filter_ipos = GetTodaysIposResult(response).value
    /\ calls.send = 1 =>
          /\ calls.filter = 1
          /\ FilterReturned
          /\ idx = Len(filter_ipos) + 1
          /\ send_qualifying = filter_qualifying
    /\ pc = "done" => calls.fetch = 1 /\ calls.filter = 1 /\ calls.send = 1

\* A completed run over two fetched records, one of them notified.
C9_Witness ==
    /\ pc = "done"
    /\ Len(filter_ipos) = 2
    /\ Len(send_qualifying) = 1

\* The double x is exactly half the signed fraction num / 10^dec:
\* x.m * 2^(x.e + 1) * 10^dec = num.
IsHalfOf(x, tp) ==
    /\ BigCmp(IF x.e + 1 >= 0
              THEN ShiftLeft(TimesPow10(x.m, tp.dec), x.e + 1)
              ELSE TimesPow10(x.m, tp.dec),
              IF x.e + 1 >= 0 THEN tp.num
              ELSE ShiftLeft(tp.num, 0 - (x.e + 1))) = 0
    /\ x.m # << >> => x.neg = tp.neg

\* The double o is exactly the double p times the integer s.
IsProductOf(o, p, s) ==
    LET prod == BigMul(p.m, BigOfNat(AbsInt(s)))
        e0 == IF o.e < p.e THEN o.e ELSE p.e
    IN  /\ BigCmp(ShiftLeft(o.m, o.e - e0), ShiftLeft(prod, p.e - e0)) = 0
        /\ (o.m # << >>) => (o.neg = (p.neg # (s < 0)))

\* The raw price of the record the loop has just finished with.
LastPrice == filter_ipos[Processed].price

\* C10 (as stated): after an iteration of the loop, the working price is
\* the arithmetic mean of the two bounds when the raw price is a string
\* with a "-" ("15-17" gives 16), the value it denotes when it is a number
\* or another string, and 0 when it is absent or falsy; offer_amount is the
\* working price times the normalized share count.
C10_PriceNormalization ==
    (pc # "crashed" /\ Processed >= 1) =>
        /\ IsRange(OrZero(LastPrice)) => Len(Split(LastPrice.str, "-")) = 2
        /\ IsHalfOf(AsFloat(price), ExactTwicePrice(LastPrice))
        /\ LastPrice = PyStr(<<"1", "5", "-", "1", "7">>) =>
              AsFloat(price) = FloatOfInt(16)
        /\ Falsy(LastPrice) => AsFloat(price) = FloatZero
        /\ shares = NormalizeShares(filter_ipos[Processed].numberOfShares)
        /\ IsProductOf(AsFloat(offer_amount), AsFloat(price), shares)

=============================================================================
